---- MODULE Spec2Model ----
(***************************************************************************)
(* Node lineage store of the dazzign backend: the nodes table              *)
(* (models/node.py), NodeService (services/node_service.py), the lineage   *)
(* resolver ImageService.get_image_lineage (services/image_service.py)     *)
(* and the HTTP handlers that wrap them.                                   *)
(***************************************************************************)
EXTENDS Integers, Sequences, FiniteSets, TLC

\* ---------------------------------------------------------------- bounds
MaxNodes == 2        \* values the id sequence hands out: 1..MaxNodes
MaxTime == 1         \* the server clock runs over 0..MaxTime
MaxPage == 2         \* pages requested: 1..MaxPage
MaxPageSize == 2     \* page sizes requested: 1..MaxPageSize

\* SQL NULL / Python None for an integer column
NULL == 0

VARIABLES
    nodes,      \* the nodes table: id -> row
    nextId,     \* next value of the id sequence (SERIAL primary key)
    now,        \* last reading of the server clock (func.now())
    op,         \* name of the last operation executed
    arg,        \* its arguments
    ret         \* what it returned (service value and HTTP outcome)

vars == <<nodes, nextId, now, op, arg, ret>>

\* ------------------------------------------------------------ data shapes
\* A row of the nodes table (models/node.py).  prompt, negative_prompt,
\* spec_json, request_params, image_path and action_type are copied from
\* the request into the row and never read by the operations modelled here.
Row(id, is_root, parent_id, created_at, image_base64) ==
    [id |-> id, is_root |-> is_root, parent_id |-> parent_id,
     created_at |-> created_at, image_base64 |-> image_base64]

NoArg == [node_id |-> NULL, is_root |-> FALSE, parent_id |-> NULL,
          page |-> 0, page_size |-> 0]

\* status: "ok" (a value was returned), "none" (None was returned),
\* "raised" (an exception was raised), "diverges" (the call never returns).
\* http: 404 or 500 when the handler raises that HTTPException, 200 (201
\* for generate) when it returns its value, 0 when the operation is a bare
\* service call or never answers.
NoRet == [status |-> "none", http |-> 0, node |-> <<>>, tree |-> <<>>,
          ancestors |-> <<>>, descendants |-> <<>>, nodes |-> <<>>, total |-> 0]

Ids == 1..MaxNodes

\* Ascending and descending arrangement of a finite set of integers.
RECURSIVE Ascending(_)
Ascending(S) ==
    IF S = {} THEN <<>>
    ELSE LET m == CHOOSE x \in S : \A y \in S : x <= y
         IN  <<m>> \o Ascending(S \ {m})

Reverse(s) == [i \in 1..Len(s) |-> s[Len(s) + 1 - i]]

\* A query without ORDER BY returns rows in whatever order the database
\* scans them.  Two scan orders are tried for every call: by id ascending
\* (heap order of an append-only table) and by id descending.
ScanOrders(S) == {Ascending(S), Reverse(Ascending(S))}

\* The elements of S in the order they occur in the sequence ord.
InOrder(S, ord) == SelectSeq(ord, LAMBDA x : x \in S)

Range(s) == {s[i] : i \in 1..Len(s)}

\* ------------------------------------------------------------------ Init
Init ==
    /\ nodes = <<>>
    /\ nextId = 1
    /\ now = 0
    /\ op = "init"
    /\ arg = NoArg
    /\ ret = NoRet

\* ----------------------------------------------------------- create_node
\* create_node without its override: the caller's is_root is stored as is.
create_is_root_kept(is_root, parent_id) ==
    is_root

\* node_service.py:23-24: is_root is forced only when no parent is given.
create_is_root(is_root, parent_id) ==
    IF parent_id = NULL THEN TRUE ELSE is_root

\* models/node.py:15: parent_id is a foreign key on nodes.id.  PostgreSQL
\* checks it at the end of the INSERT statement, when the inserted row is
\* already visible, so a row referencing its own id satisfies it.
fk_satisfied(store, new_id, parent_id) ==
    \/ parent_id = NULL
    \/ parent_id \in DOMAIN store
    \/ parent_id = new_id

\* create_node gone wrong: a request that names a stored parent rewrites
\* the parent's row in place instead of inserting a row of its own.
create_node_in_place(data_is_root, data_parent_id, data_image, opname) ==
    LET new_id == IF data_parent_id \in DOMAIN nodes
                  THEN data_parent_id ELSE nextId
        db_node == Row(new_id, create_is_root(data_is_root, data_parent_id),
                       data_parent_id, now', data_image)
    IN  /\ nextId <= MaxNodes
        /\ now' \in now..MaxTime
        /\ nextId' = nextId + 1
        /\ op' = opname
        /\ arg' = [NoArg EXCEPT !.is_root = data_is_root,
                                !.parent_id = data_parent_id]
        /\ IF fk_satisfied(nodes, new_id, data_parent_id)
           THEN /\ nodes' = (new_id :> db_node) @@ nodes
                /\ ret' = [NoRet EXCEPT !.status = "ok",
                              !.http = IF opname = "generate" THEN 201 ELSE 200,
                              !.node = <<db_node>>]
           ELSE /\ nodes' = nodes
                /\ ret' = [NoRet EXCEPT !.status = "raised", !.http = 500]

\* NodeService.create_node, as called by POST /node/ and by generate_image.
\* created_at is the server clock read by the INSERT (server_default
\* func.now(), models/node.py:23): no earlier than the previous reading.
\* The sequence value is consumed whether or not the INSERT succeeds.
create_node(data_is_root, data_parent_id, data_image, opname) ==
    LET new_id == nextId
        db_node == Row(new_id, create_is_root(data_is_root, data_parent_id),
                       data_parent_id, now', data_image)
    IN  /\ nextId <= MaxNodes
        /\ now' \in now..MaxTime
        /\ nextId' = nextId + 1
        /\ op' = opname
        /\ arg' = [NoArg EXCEPT !.is_root = data_is_root,
                                !.parent_id = data_parent_id]
        /\ IF fk_satisfied(nodes, new_id, data_parent_id)
           THEN /\ nodes' = nodes @@ (new_id :> db_node)
                /\ ret' = [NoRet EXCEPT !.status = "ok",
                              !.http = IF opname = "generate" THEN 201 ELSE 200,
                              !.node = <<db_node>>]
           ELSE /\ nodes' = nodes
                /\ ret' = [NoRet EXCEPT !.status = "raised", !.http = 500]

\* POST /node/ (node_endpoints.py:80-93)
CreateNode ==
    \E is_root \in BOOLEAN, parent_id \in {NULL} \cup Ids,
       image \in {"b64"} :
        create_node(is_root, parent_id, image, "create_node")

\* -------------------------------------------------------------- get_node
\* select(Node).where(Node.id == node_id) ... .first()
select_by_id(store, node_id) ==
    IF node_id \in DOMAIN store THEN <<store[node_id]>> ELSE <<>>

\* GET /node/{node_id} gone wrong: the handler returns whatever the
\* service gave it, without the not-found check.
GetNode_unchecked ==
    \E node_id \in Ids \cup {MaxNodes + 1} :
        LET node == select_by_id(nodes, node_id)
        IN  /\ op' = "get_node"
            /\ arg' = [NoArg EXCEPT !.node_id = node_id]
            /\ ret' = IF node = <<>>
                      THEN [NoRet EXCEPT !.status = "none", !.http = 200]
                      ELSE [NoRet EXCEPT !.status = "ok", !.http = 200,
                                         !.node = node]
            /\ UNCHANGED <<nodes, nextId, now>>

\* NodeService.get_node wrapped by GET /node/{node_id}
GetNode ==
    \E node_id \in Ids \cup {MaxNodes + 1} :
        LET node == select_by_id(nodes, node_id)
        IN  /\ op' = "get_node"
            /\ arg' = [NoArg EXCEPT !.node_id = node_id]
            /\ ret' = IF node = <<>>
                      THEN [NoRet EXCEPT !.status = "none", !.http = 404]
                      ELSE [NoRet EXCEPT !.status = "ok", !.http = 200,
                                         !.node = node]
            /\ UNCHANGED <<nodes, nextId, now>>

\* --------------------------------------------------------- get_node_tree
\* Rows of the table whose parent_id is one of the given ids.
children_of(store, ids) ==
    {n \in DOMAIN store : store[n].parent_id \in ids}

\* The recursive CTE of node_service.py:63-71, evaluated as PostgreSQL
\* does: the working table starts as the row with id = node_id; each round
\* replaces it by the rows whose parent_id joins a row of the working table
\* and appends them to the result, until the working table is empty.  Rows
\* of one round come out in table scan order.  The result is <<>> with
\* done = FALSE when the working table is still non-empty after more rounds
\* than the table has rows: the recursion then never reaches a fixpoint.
RECURSIVE cte_rounds(_, _, _, _, _)
cte_rounds(store, working, acc, scan, fuel) ==
    IF working = {} THEN [done |-> TRUE, rows |-> acc]
    ELSE IF fuel = 0 THEN [done |-> FALSE, rows |-> <<>>]
    ELSE LET produced == InOrder(working, scan)
             rows == [i \in 1..Len(produced) |-> store[produced[i]]]
         IN  cte_rounds(store, children_of(store, working), acc \o rows,
                        scan, fuel - 1)

descendants_cte(store, node_id, scan) ==
    cte_rounds(store, {n \in DOMAIN store : n = node_id}, <<>>, scan,
               Cardinality(DOMAIN store) + 1)

\* build_tree of node_service.py:85-92: the rows whose parent_id is
\* parent_id, in row order, each with the tree built below it.
RECURSIVE build_tree(_, _)
build_tree(rows, parent_id) ==
    LET matching == SelectSeq(rows, LAMBDA n : n.parent_id = parent_id)
    IN  [i \in 1..Len(matching) |->
            [node |-> matching[i],
             children |-> build_tree(rows, matching[i].id)]]

\* node_service.py:95-96: the root is the fetched row with id = node_id.
root_of(rows, node_id) ==
    LET i == CHOOSE k \in 1..Len(rows) :
                 /\ rows[k].id = node_id
                 /\ \A j \in 1..(k - 1) : rows[j].id # node_id
    IN  [node |-> rows[i], children |-> build_tree(rows, node_id)]

\* NodeService.get_node_tree wrapped by GET /node/{node_id}/tree.
\* scan is the order in which the table hands out rows for this call.
GetNodeTree ==
    \E node_id \in Ids \cup {MaxNodes + 1}, scan \in ScanOrders(DOMAIN nodes) :
        LET node == select_by_id(nodes, node_id)
            cte == descendants_cte(nodes, node_id, scan)
        IN  /\ op' = "get_node_tree"
            /\ arg' = [NoArg EXCEPT !.node_id = node_id]
            /\ ret' = IF node = <<>>
                      THEN [NoRet EXCEPT !.status = "none", !.http = 404]
                      ELSE IF ~cte.done
                      THEN [NoRet EXCEPT !.status = "diverges"]
                      ELSE [NoRet EXCEPT !.status = "ok", !.http = 200,
                                !.tree = <<root_of(cte.rows, node_id)>>]
            /\ UNCHANGED <<nodes, nextId, now>>

\* ----------------------------------------------------- get_image_lineage
\* The lineage resolver reads a table with the columns of nodes
\* (models/image_node.py is column for column models/node.py); it is run
\* here over the one node table.

\* image_service.py:78-87: start at image.parent, append, then look up the
\* row whose id is current.parent_id, until no row comes back.  done is
\* FALSE when the walk is still going after more hops than the table has
\* rows: it has entered a cycle and never ends.
RECURSIVE ancestor_walk(_, _, _, _)
ancestor_walk(store, current, ancestors, fuel) ==
    IF current = <<>> THEN [done |-> TRUE, rows |-> ancestors]
    ELSE IF fuel = 0 THEN [done |-> FALSE, rows |-> <<>>]
    ELSE ancestor_walk(store, select_by_id(store, current[1].parent_id),
                       ancestors \o current, fuel - 1)

\* select(ImageNode).where(ImageNode.parent_id == id): rows in scan order.
select_children(store, id, scan) ==
    LET found == InOrder(children_of(store, {id}), scan)
    IN  [i \in 1..Len(found) |-> store[found[i]]]

\* image_service.py:101-107: for each direct child, in order, append its
\* children.
RECURSIVE extend_with_children(_, _, _, _)
extend_with_children(store, descendants, all_descendants, scan) ==
    IF descendants = <<>> THEN all_descendants
    ELSE extend_with_children(store, Tail(descendants),
            all_descendants \o select_children(store, Head(descendants).id, scan),
            scan)

\* The descendants gone wrong: children and grandchildren are read by one
\* query and come back in the order of the scan.
lineage_descendants_merged(store, image_id, scan) ==
    LET children == children_of(store, {image_id})
        found == InOrder(children \cup children_of(store, children), scan)
    IN  [i \in 1..Len(found) |-> store[found[i]]]

\* image_service.py:89-107
lineage_descendants(store, image_id, scan) ==
    LET descendants == select_children(store, image_id, scan)
    IN  extend_with_children(store, descendants, descendants, scan)

\* get_image_lineage gone wrong: without the early return for a missing
\* image, reading image.parent of None raises.
get_image_lineage_unguarded(store, image_id, scan) ==
    LET image == select_by_id(store, image_id)
    IN  IF image = <<>>
        THEN [NoRet EXCEPT !.status = "raised"]
        ELSE LET walk == ancestor_walk(store,
                            select_by_id(store, image[1].parent_id), <<>>,
                            Cardinality(DOMAIN store) + 1)
             IN  IF ~walk.done
                 THEN [NoRet EXCEPT !.status = "diverges"]
                 ELSE [NoRet EXCEPT !.status = "ok",
                          !.ancestors = walk.rows,
                          !.descendants =
                              lineage_descendants(store, image_id, scan)]

\* ImageService.get_image_lineage (image_service.py:62-112)
get_image_lineage(store, image_id, scan) ==
    LET image == select_by_id(store, image_id)
    IN  IF image = <<>>
        THEN [NoRet EXCEPT !.status = "ok"]
        ELSE LET walk == ancestor_walk(store,
                            select_by_id(store, image[1].parent_id), <<>>,
                            Cardinality(DOMAIN store) + 1)
             IN  IF ~walk.done
                 THEN [NoRet EXCEPT !.status = "diverges"]
                 ELSE [NoRet EXCEPT !.status = "ok",
                          !.ancestors = walk.rows,
                          !.descendants =
                              lineage_descendants(store, image_id, scan)]

\* A direct call of the service method.
GetImageLineage ==
    \E image_id \in Ids \cup {MaxNodes + 1}, scan \in ScanOrders(DOMAIN nodes) :
        /\ op' = "get_image_lineage"
        /\ arg' = [NoArg EXCEPT !.node_id = image_id]
        /\ ret' = get_image_lineage(nodes, image_id, scan)
        /\ UNCHANGED <<nodes, nextId, now>>

\* GET /{image_id}/lineage (images.py:100-119): the handler looks the image
\* up first and answers 404 before the service method is reached.
GetImageLineageEndpoint ==
    \E image_id \in Ids \cup {MaxNodes + 1}, scan \in ScanOrders(DOMAIN nodes) :
        LET image == select_by_id(nodes, image_id)
            lineage == get_image_lineage(nodes, image_id, scan)
        IN  /\ op' = "lineage_endpoint"
            /\ arg' = [NoArg EXCEPT !.node_id = image_id]
            /\ ret' = IF image = <<>>
                      THEN [NoRet EXCEPT !.status = "raised", !.http = 404]
                      ELSE IF lineage.status = "ok"
                      THEN [lineage EXCEPT !.http = 200]
                      ELSE lineage
            /\ UNCHANGED <<nodes, nextId, now>>

\* -------------------------------------------------------- get_root_nodes
\* node_service.py:148: the selection predicate.
is_root_row(row) == row.is_root = TRUE

\* The count query gone wrong: it counts every row of the table.
count_all_rows(store) == Cardinality(DOMAIN store)

\* node_service.py:151-153: the count query.
count_roots(store) ==
    Cardinality({n \in DOMAIN store : is_root_row(store[n])})

\* The ordering gone wrong: ORDER BY created_at without desc(), oldest first.
RECURSIVE order_by_created_at_asc(_, _, _, _)
order_by_created_at_asc(store, selected, scan, t) ==
    LET at_t == InOrder({n \in selected : store[n].created_at = MaxTime - t},
                        scan)
        rows == [i \in 1..Len(at_t) |-> store[at_t[i]]]
    IN  IF t = 0 THEN rows
        ELSE rows \o order_by_created_at_asc(store, selected, scan, t - 1)

\* ORDER BY created_at DESC over the selected rows: latest first; rows
\* with equal created_at come in the order the database scans them.
RECURSIVE order_by_created_at_desc(_, _, _, _)
order_by_created_at_desc(store, selected, scan, t) ==
    LET at_t == InOrder({n \in selected : store[n].created_at = t}, scan)
        rows == [i \in 1..Len(at_t) |-> store[at_t[i]]]
    IN  IF t = 0 THEN rows
        ELSE rows \o order_by_created_at_desc(store, selected, scan, t - 1)

Min(a, b) == IF a < b THEN a ELSE b

\* The window gone wrong: .offset(page * page_size), one page too far.
page_window_shifted(sorted, page, page_size) ==
    SubSeq(sorted, page * page_size + 1,
           Min((page + 1) * page_size, Len(sorted)))

\* .offset((page - 1) * page_size).limit(page_size)
page_window(sorted, page, page_size) ==
    SubSeq(sorted, (page - 1) * page_size + 1,
           Min(page * page_size, Len(sorted)))

\* NodeService.get_root_nodes wrapped by GET /node/root
GetRootNodes ==
    \E page \in 1..MaxPage, page_size \in 1..MaxPageSize,
       scan \in ScanOrders(DOMAIN nodes) :
        LET selected == {n \in DOMAIN nodes : is_root_row(nodes[n])}
            sorted == order_by_created_at_desc(nodes, selected, scan, MaxTime)
        IN  /\ op' = "get_root_nodes"
            /\ arg' = [NoArg EXCEPT !.page = page, !.page_size = page_size]
            /\ ret' = [NoRet EXCEPT !.status = "ok", !.http = 200,
                          !.nodes = page_window(sorted, page, page_size),
                          !.total = count_roots(nodes)]
            /\ UNCHANGED <<nodes, nextId, now>>

\* ------------------------------------------------------- generate_image
\* POST /image-gen/generate (image_gen_endpoints.py:13-65):
\* prepare_generation_data builds a NodeBase with the request's parent_id
\* and the default is_root = False (image_gen_service.py:128-134), the
\* renderer yields a base64 payload (that of a provider or the mock image),
\* and the node is stored with NodeService.create_node.
GenerateImage ==
    \E parent_id \in {NULL} \cup Ids, image \in {"b64"} :
        create_node(FALSE, parent_id, image, "generate")

Next ==
    \/ CreateNode
    \/ GetNode
    \/ GetNodeTree
    \/ GetImageLineage
    \/ GetImageLineageEndpoint
    \/ GetRootNodes
    \/ GenerateImage

Spec == Init /\ [][Next]_vars

\* ======================================================================
\* Properties
\* ======================================================================
\* Vocabulary of the properties, defined on the table alone.
StoredIds == DOMAIN nodes

ParentOf(n) == nodes[n].parent_id

\* The nodes met by following parent_id from n for at most k hops.
RECURSIVE Up(_, _)
Up(n, k) ==
    IF k = 0 \/ ParentOf(n) = NULL \/ ParentOf(n) \notin StoredIds THEN {}
    ELSE {ParentOf(n)} \cup Up(ParentOf(n), k - 1)

AncestorsOf(n) == Up(n, Cardinality(StoredIds))

DescendantsOf(x) == {n \in StoredIds \ {x} : x \in AncestorsOf(n)}

ChildrenOf(x) == {n \in StoredIds : ParentOf(n) = x}

\* Following parent_id from n reaches a node without parent within as many
\* hops as there are nodes.
RECURSIVE ReachesNull(_, _)
ReachesNull(n, k) ==
    \/ ParentOf(n) = NULL
    \/ /\ k > 0
       /\ ParentOf(n) \in StoredIds
       /\ ReachesNull(ParentOf(n), k - 1)

IdsOf(rows) == [i \in 1..Len(rows) |-> rows[i].id]

NoRepeats(s) == \A i, j \in 1..Len(s) : i # j => s[i] # s[j]

Missing(id) == id \notin StoredIds

IsCreate == op \in {"create_node", "generate"}

\* ---------------------------------------------------------------- C1
\* C1: every stored node has is_root = TRUE exactly when its parent_id is
\* null; a node created under an existing parent is stored with
\* is_root = FALSE whatever is_root the caller sent.  Stated over the nodes
\* whose parent is not the node itself.
C1_RootFlagIffNoParent ==
    \A n \in StoredIds :
        ParentOf(n) # n => (nodes[n].is_root <=> ParentOf(n) = NULL)

\* ---------------------------------------------------------------- C2
\* C2: every non-null parent_id is the id of a stored node, and following
\* parent_id from any node never comes back to a node already visited (no
\* node is its own parent or ancestor).
C2_ParentsExistAndForest ==
    \A n \in StoredIds :
        /\ ParentOf(n) # NULL => ParentOf(n) \in StoredIds
        /\ ParentOf(n) # n
        /\ ReachesNull(n, Cardinality(StoredIds))

\* ---------------------------------------------------------------- C3
\* C3: in every step, every node stored before the step is stored after it
\* with all its fields unchanged; a step changes the table only by a
\* successful create_node or generate, which adds exactly the one node it
\* returns under an id that was not in use; unsuccessful creations and the
\* read operations leave the table as it was.
C3_Frame ==
    /\ \A n \in StoredIds : n \in DOMAIN nodes' /\ nodes'[n] = nodes[n]
    /\ nextId' # nextId /\ ret'.status = "ok" =>
          /\ op' \in {"create_node", "generate"}
          /\ Len(ret'.node) = 1
          /\ ret'.node[1].id \notin StoredIds
          /\ DOMAIN nodes' = StoredIds \cup {ret'.node[1].id}
          /\ nodes'[ret'.node[1].id] = ret'.node[1]
    /\ ~(nextId' # nextId /\ ret'.status = "ok") => nodes' = nodes

C3_NodesImmutable == [][C3_Frame]_vars

\* A creation has succeeded in a table that already held nodes.
C3_Witness ==
    /\ IsCreate
    /\ ret.status = "ok"
    /\ Cardinality(StoredIds) >= 2

\* ---------------------------------------------------------------- C4
\* Ids of a tree in preorder.
RECURSIVE tree_ids(_)
RECURSIVE forest_ids(_)
tree_ids(t) == <<t.node.id>> \o forest_ids(t.children)
forest_ids(ts) ==
    IF ts = <<>> THEN <<>> ELSE tree_ids(Head(ts)) \o forest_ids(Tail(ts))

\* Every node of the tree is the stored row and hangs below its parent_id.
RECURSIVE well_attached(_)
well_attached(t) ==
    /\ t.node = nodes[t.node.id]
    /\ \A i \in 1..Len(t.children) :
          /\ t.children[i].node.parent_id = t.node.id
          /\ well_attached(t.children[i])

TreeOf(x, t) ==
    /\ t.node.id = x
    /\ Range(tree_ids(t)) = {x} \cup DescendantsOf(x)
    /\ NoRepeats(tree_ids(t))
    /\ well_attached(t)
    /\ (ChildrenOf(x) = {} => t.children = <<>>)

\* C4: get_node_tree of a stored node X returns one tree rooted at X that
\* holds X and every transitive descendant of X exactly once and nothing
\* else, every node below its true parent; a node without children comes
\* back with an empty child sequence.
C4_TreeIsWholeSubtree ==
    op = "get_node_tree" /\ ~Missing(arg.node_id) =>
        /\ ret.status = "ok"
        /\ Len(ret.tree) = 1
        /\ TreeOf(arg.node_id, ret.tree[1])

\* ---------------------------------------------------------------- C5
\* C5: get_node and get_node_tree of an id that is not stored return None,
\* the handler answers 404, no node and no tree come back, and the table
\* is unchanged by the call.
C5_Step ==
    (GetNode \/ GetNodeTree) /\ arg'.node_id \notin StoredIds =>
        /\ ret'.status = "none"
        /\ ret'.http = 404
        /\ ret'.node = <<>>
        /\ ret'.tree = <<>>
        /\ nodes' = nodes

C5_MissingIsNotFound == [][C5_Step]_vars

\* get_node_tree was asked for an id missing from a non-empty table.
C5_Witness ==
    /\ op = "get_node_tree"
    /\ Missing(arg.node_id)
    /\ StoredIds # {}
    /\ ret.http = 404

\* ---------------------------------------------------------------- C6
EmptyLineage == ret.ancestors = <<>> /\ ret.descendants = <<>>

IsLineage == op \in {"get_image_lineage", "lineage_endpoint"}

AncestorChain(x, anc) ==
    /\ NoRepeats(IdsOf(anc))
    /\ x \notin Range(IdsOf(anc))
    /\ \A i \in 1..Len(anc) : anc[i] = nodes[anc[i].id]
    /\ (anc = <<>> <=> ParentOf(x) = NULL)
    /\ anc # <<>> => /\ anc[1].id = ParentOf(x)
                     /\ anc[Len(anc)].parent_id = NULL
    /\ \A i \in 1..(Len(anc) - 1) : anc[i + 1].id = anc[i].parent_id

\* C7: for a stored node X, get_lineage(X).ancestors is the chain
\* parent(X), parent(parent(X)), ... nearest first, without repeats and
\* without X, ending at the node whose parent_id is null; it is empty when
\* X has no parent.
C7_AncestorsAreTheChain ==
    IsLineage /\ ~Missing(arg.node_id) =>
        ret.status = "ok" /\ AncestorChain(arg.node_id, ret.ancestors)

\* ---------------------------------------------------------------- C8
TwoLevels(x) ==
    ChildrenOf(x) \cup UNION {ChildrenOf(c) : c \in ChildrenOf(x)}

TwoLevelDescendants(x, desc) ==
    /\ Range(IdsOf(desc)) = TwoLevels(x)
    /\ NoRepeats(IdsOf(desc))
    /\ \A i \in 1..Len(desc) : desc[i] = nodes[desc[i].id]
    /\ x \notin Range(IdsOf(desc))
    /\ Range(IdsOf(desc)) \cap AncestorsOf(x) = {}

\* C8: for a stored node X, get_lineage(X).descendants holds exactly the
\* children of X and the children of those children, each once; nothing
\* from three or more levels below X, and neither X nor an ancestor of X.
C8_DescendantsAreTwoLevels ==
    IsLineage /\ ~Missing(arg.node_id) =>
        ret.status = "ok" /\ TwoLevelDescendants(arg.node_id, ret.descendants)

\* ---------------------------------------------------------------- C9
\* C9: every node returned by list_roots has is_root = TRUE and the
\* returned sequence is in descending created_at order.
C9_RootsOnlyNewestFirst ==
    op = "get_root_nodes" =>
        /\ \A i \in 1..Len(ret.nodes) : ret.nodes[i].is_root = TRUE
        /\ \A i, j \in 1..Len(ret.nodes) :
              i < j => ret.nodes[i].created_at >= ret.nodes[j].created_at

\* A page came back with two roots of different age, the younger first.
C9_Witness ==
    /\ op = "get_root_nodes"
    /\ Len(ret.nodes) = 2
    /\ ret.nodes[1].is_root /\ ret.nodes[2].is_root
    /\ ret.nodes[1].created_at > ret.nodes[2].created_at

\* ---------------------------------------------------------------- C10
\* C10: the total returned by list_roots is the number of stored nodes
\* with is_root = TRUE, whatever page and page_size were asked for, also
\* for a page past the last one.
C10_TotalCountsAllRoots ==
    op = "get_root_nodes" =>
        ret.total = Cardinality({n \in StoredIds : nodes[n].is_root})

\* A page past the last one came back empty with a total that counts some
\* but not all stored nodes.
C10_Witness ==
    /\ op = "get_root_nodes"
    /\ ret.nodes = <<>>
    /\ (arg.page - 1) * arg.page_size >= ret.total
    /\ ret.total >= 1
    /\ ret.total < Cardinality(StoredIds)

\* ------------------------------------------------------------------ C11
\* The root rows of the store in one of their created_at-descending
\* arrangements (rows of equal created_at in either relative order).
DescendingRootLists ==
    LET roots == {n \in StoredIds : nodes[n].is_root}
        k == Cardinality(roots)
    IN  {s \in [1..k -> roots] :
            /\ \A i, j \in 1..k : i # j => s[i] # s[j]
            /\ \A i, j \in 1..k :
                   i < j => nodes[s[i]].created_at >= nodes[s[j]].created_at}

\* Positions first..last of a list, cut at its end.
Positions(s, first, last) ==
    [i \in 1..(IF Min(last, Len(s)) < first THEN 0
               ELSE Min(last, Len(s)) - first + 1) |-> s[first + i - 1]]

\* C11: list_roots(page, page_size) returns exactly the rows at positions
\* (page-1)*page_size+1 .. page*page_size of the created_at-descending root
\* list: it skips (page-1)*page_size rows, returns at most page_size rows,
\* fewer only on the last page, and none past the end.
C11_PageIsTheWindow ==
    op = "get_root_nodes" =>
        LET first == (arg.page - 1) * arg.page_size + 1
            last == arg.page * arg.page_size
            roots == {n \in StoredIds : nodes[n].is_root}
            total == Cardinality(roots)
        IN  /\ \E s \in DescendingRootLists :
                   /\ IdsOf(ret.nodes) = Positions(s, first, last)
                   /\ \A i \in 1..Len(ret.nodes) :
                          ret.nodes[i] = nodes[s[first + i - 1]]
            /\ Len(ret.nodes) <= arg.page_size
            /\ Len(ret.nodes) < arg.page_size => last >= total
            /\ first > total => ret.nodes = <<>>

\* A second page of one row was served from a list of two roots: one row
\* skipped, one returned.
C11_Witness ==
    /\ op = "get_root_nodes"
    /\ arg.page = 2 /\ arg.page_size = 1
    /\ Cardinality({n \in StoredIds : nodes[n].is_root}) = 2
    /\ Len(ret.nodes) = 1

\* =====================================================================
\* Prompt composition: TextGenService._create_structured_prompt
\* (services/text_gen_service.py) and ImageGenService
\* .create_structured_prompt (services/image_gen_service.py), over
\* PCCaseAttributes (schemas/common/design_attributes.py).
\* =====================================================================

MaxValues == 2       \* values listed in one category: 0..MaxValues

\* An Optional[List[str]] value: Python's None for a category that is
\* absent, or the list of the values given.
None == [is_none |-> TRUE, values |-> <<>>]

List(values) == [is_none |-> FALSE, values |-> values]

\* The category keys of PCCaseAttributes, in declaration order.
Categories ==
    <<"shape", "style", "color", "material", "ventilation", "lighting",
      "features", "environment">>

\* Values a request may list in a category, in the order it lists them.
CategoryWords ==
    [shape |-> <<"Cube", "Slim", "Open">>,
     style |-> <<"Retro", "Sleek", "Modern">>,
     color |-> <<"Black", "Red", "Gold">>,
     material |-> <<"Wood", "Steel", "Glass">>,
     ventilation |-> <<"Mesh", "Vents", "Intake">>,
     lighting |-> <<"RGB", "Neon", "LED">>,
     features |-> <<"LCD", "Handle", "Shroud">>,
     environment |-> <<"Desk", "Studio", "Lab">>]

\* A category is absent, empty, or lists up to MaxValues values.
CategoryValues(c) ==
    {None} \cup
    {List(SubSeq(CategoryWords[c], 1, n)) :
        n \in 0..Min(MaxValues, Len(CategoryWords[c]))}

PCCaseAttributes ==
    [shape : CategoryValues("shape"), style : CategoryValues("style"),
     color : CategoryValues("color"),
     material : CategoryValues("material"),
     ventilation : CategoryValues("ventilation"),
     lighting : CategoryValues("lighting"),
     features : CategoryValues("features"),
     environment : CategoryValues("environment")]

\* Python truthiness of a category: None and [] are false.
truthy(v) == ~v.is_none /\ v.values # <<>>

\* sep.join(values)
RECURSIVE join(_, _)
join(sep, values) ==
    IF values = <<>> THEN ""
    ELSE IF Len(values) = 1 THEN values[1]
    ELSE values[1] \o sep \o join(sep, Tail(values))

\* The composer gone wrong: the values of a category joined by commas.
create_structured_prompt_commas(attributes) ==
    LET and(vs) == join(", ", vs)
        shape_desc == IF truthy(attributes.shape)
                      THEN "a " \o and(attributes.shape.values) \o " PC case"
                      ELSE "a PC case"
        parts0 == <<"A high-resolution render of">>
        parts1 == IF truthy(attributes.style)
                  THEN Append(parts0, shape_desc \o " with a "
                                  \o and(attributes.style.values) \o " aesthetic")
                  ELSE Append(parts0, shape_desc)
        parts2 == IF truthy(attributes.material)
                  THEN Append(parts1, "made of " \o and(attributes.material.values))
                  ELSE parts1
        parts3 == IF truthy(attributes.ventilation)
                  THEN Append(parts2,
                              "featuring " \o and(attributes.ventilation.values))
                  ELSE parts2
        parts4 == IF truthy(attributes.lighting)
                  THEN Append(parts3,
                              "illuminated by " \o and(attributes.lighting.values))
                  ELSE parts3
        parts5 == IF truthy(attributes.features)
                  THEN Append(parts4,
                              "including " \o and(attributes.features.values))
                  ELSE parts4
        parts6 == IF truthy(attributes.environment)
                  THEN Append(parts5,
                              "set in " \o and(attributes.environment.values))
                  ELSE parts5
    IN  join("; ", parts6) \o "."

\* text_gen_service.py:530-569: parts starts as the list holding the
\* lead-in, every clause is appended to it, and the whole list is joined
\* with "; " and closed with ".".
create_structured_prompt(attributes) ==
    LET and(vs) == join(" and ", vs)
        shape_desc == IF truthy(attributes.shape)
                      THEN "a " \o and(attributes.shape.values) \o " PC case"
                      ELSE "a PC case"
        parts0 == <<"A high-resolution render of">>
        parts1 == IF truthy(attributes.style)
                  THEN Append(parts0, shape_desc \o " with a "
                                  \o and(attributes.style.values) \o " aesthetic")
                  ELSE Append(parts0, shape_desc)
        parts2 == IF truthy(attributes.material)
                  THEN Append(parts1, "made of " \o and(attributes.material.values))
                  ELSE parts1
        parts3 == IF truthy(attributes.ventilation)
                  THEN Append(parts2,
                              "featuring " \o and(attributes.ventilation.values))
                  ELSE parts2
        parts4 == IF truthy(attributes.lighting)
                  THEN Append(parts3,
                              "illuminated by " \o and(attributes.lighting.values))
                  ELSE parts3
        parts5 == IF truthy(attributes.features)
                  THEN Append(parts4,
                              "including " \o and(attributes.features.values))
                  ELSE parts4
        parts6 == IF truthy(attributes.environment)
                  THEN Append(parts5,
                              "set in " \o and(attributes.environment.values))
                  ELSE parts5
    IN  join("; ", parts6) \o "."

\* json.dumps of a list of strings, or of None.
json_list(v) ==
    IF v.is_none THEN "null"
    ELSE "[" \o join(", ", [i \in 1..Len(v.values) |->
                               "\"" \o v.values[i] \o "\""])
             \o "]"

\* json.dumps(attributes.dict(), ensure_ascii=False): the categories in
\* declaration order.
json_dumps(attributes) ==
    "{" \o join(", ", [i \in 1..Len(Categories) |->
                          "\"" \o Categories[i] \o "\": "
                              \o json_list(attributes[Categories[i]])])
        \o "}"

\* image_gen_service.py:139-182: the clause template is a string literal
\* that is never evaluated; the prompt is the JSON dump of the attributes.
image_gen_create_structured_prompt(attributes) ==
    "A computer case with " \o json_dumps(attributes)

\* TextGenService._create_structured_prompt(original_prompt, attributes)
ComposePrompt ==
    /\ op' = "compose"
    /\ ret' = [prompt |-> create_structured_prompt(arg.attributes)]
    /\ UNCHANGED <<nodes, nextId, now, arg>>

\* ImageGenService.create_structured_prompt(request.spec_json); the
\* request schema admits lists only (GenerateImageRequest.spec_json).
CreateStructuredPrompt ==
    /\ \A i \in 1..Len(Categories) : arg.attributes[Categories[i]] # None
    /\ op' = "create_structured_prompt"
    /\ ret' = [prompt |->
                  image_gen_create_structured_prompt(arg.attributes)]
    /\ UNCHANGED <<nodes, nextId, now, arg>>

\* image_gen_endpoints.py:36-51: the structured prompt is built from
\* request.spec_json, recorded in request_params, and passed as prompt to
\* ImageGenService.generate_image.
PromptToRenderer ==
    LET structured_prompt ==
            image_gen_create_structured_prompt(arg.attributes)
    IN  /\ \A i \in 1..Len(Categories) : arg.attributes[Categories[i]] # None
        /\ op' = "generate_image_prompt"
        /\ ret' = [prompt |-> structured_prompt,
                   request_params |-> [prompt |-> structured_prompt]]
        /\ UNCHANGED <<nodes, nextId, now, arg>>

InitCompose ==
    /\ nodes = <<>>
    /\ nextId = 1
    /\ now = 0
    /\ op = "init"
    /\ arg \in [attributes : PCCaseAttributes]
    /\ ret = NoRet

NextCompose == ComposePrompt \/ CreateStructuredPrompt \/ PromptToRenderer

SpecCompose == InitCompose /\ [][NextCompose]_vars

\* ------------------------------------------------------------------ C18
IsComposed == op \in {"compose", "create_structured_prompt"}

NoAttributes ==
    \A i \in 1..Len(Categories) : ~truthy(arg.attributes[Categories[i]])

\* C18: compose applied to an attribute set in which every category is
\* absent or empty yields exactly "A high-resolution render of a PC case.".
C18_EmptyComposesBarePhrase ==
    IsComposed /\ NoAttributes =>
        ret.prompt = "A high-resolution render of a PC case."

\* ------------------------------------------------------------------ C19
\* The words that open the clause of a category.
ClauseOpening ==
    [material |-> "made of ", ventilation |-> "featuring ",
     lighting |-> "illuminated by ", features |-> "including ",
     environment |-> "set in "]

ClauseOrder ==
    <<"material", "ventilation", "lighting", "features", "environment">>

AndList(vs) == join(" and ", vs)

\* The shape+style clause: shape alone without a style, the bare phrase
\* without either.
ShapeStyleClause(a) ==
    "a " \o (IF truthy(a.shape) THEN AndList(a.shape.values) \o " " ELSE "")
         \o "PC case"
         \o (IF truthy(a.style)
             THEN " with a " \o AndList(a.style.values) \o " aesthetic" ELSE "")

\* The clauses of the categories that list a value, in the fixed order.
CategoryClauses(a) ==
    LET present == SelectSeq(ClauseOrder, LAMBDA c : truthy(a[c]))
    IN  [i \in 1..Len(present) |->
            ClauseOpening[present[i]] \o AndList(a[present[i]].values)]

PageSizeMax == 100

\* Pages and page sizes requested, on both sides of each limit.
PageInputs == {-1, 0, 1, 2}
PageSizeInputs == {-1, 0, 1, 2, PageSizeMax - 1, PageSizeMax, PageSizeMax + 1}

\* The validation gone wrong: le=100 left out of page_size.
query_valid_no_le(page, page_size) == page >= 1 /\ page_size >= 1

\* page: Query(1, ge=1); page_size: Query(20, ge=1, le=100).
query_valid(page, page_size) ==
    page >= 1 /\ page_size >= 1 /\ page_size <= PageSizeMax

\* The handler behind FastAPI's parameter validation: a request that fails
\* it is answered 422 and the handler body never runs; otherwise the body
\* runs the count query and the page query of NodeService.get_root_nodes.
\* ret.queries is the number of statements the request sent to the store.
ListRootNodes ==
    \E page \in PageInputs, page_size \in PageSizeInputs,
       scan \in ScanOrders(DOMAIN nodes) :
        LET selected == {n \in DOMAIN nodes : is_root_row(nodes[n])}
            sorted == order_by_created_at_desc(nodes, selected, scan, MaxTime)
        IN  /\ op' = "list_root_nodes"
            /\ arg' = [NoArg EXCEPT !.page = page, !.page_size = page_size]
            /\ ret' = IF query_valid(page, page_size)
                      THEN [NoRet EXCEPT !.status = "ok", !.http = 200,
                               !.nodes = page_window(sorted, page, page_size),
                               !.total = count_roots(nodes)]
                           @@ [queries |-> 2]
                      ELSE [NoRet EXCEPT !.status = "raised", !.http = 422]
                           @@ [queries |-> 0]
            /\ UNCHANGED <<nodes, nextId, now>>

NextList == CreateNode \/ ListRootNodes

SpecList == Init /\ [][NextList]_vars

\* ------------------------------------------------------------------ C20
\* C20: a root listing request with page < 1 or page_size outside [1,100]
\* (0 or 101, say) is rejected by validation before the store is queried;
\* requests with page_size 1 and page_size 100 are accepted and answered.
C20_PaginationBounds ==
    op = "list_root_nodes" =>
        /\ arg.page < 1 \/ arg.page_size < 1 \/ arg.page_size > 100 =>
               /\ ret.status = "raised" /\ ret.http = 422
               /\ ret.queries = 0
               /\ ret.nodes = <<>> /\ ret.total = 0
        /\ arg.page >= 1 /\ arg.page_size \in {1, 100} =>
               /\ ret.status = "ok" /\ ret.http = 200
               /\ ret.queries > 0
               /\ ret.total = Cardinality({n \in StoredIds : nodes[n].is_root})
               /\ Len(ret.nodes) <= arg.page_size

\* With a root stored, a request for 101 rows was turned away unanswered.
C20_Witness ==
    /\ op = "list_root_nodes"
    /\ arg.page = 1 /\ arg.page_size = 101
    /\ \E n \in StoredIds : nodes[n].is_root
    /\ ret.http = 422 /\ ret.total = 0

\* =====================================================================
\* POST /image-gen/generate step by step
\* (api/endpoints/image_gen_endpoints.py:13-65) with the renderer
\* ImageGenService (services/image_gen_service.py:24-113) and the
\* outcomes of what it depends on.
\* =====================================================================

\* _get_mock_image (image_gen_service.py:185-197): the second and third
\* literals of the list have no comma between them and are one string.
MockImages == {"mock_png", "mock_red_green", "mock_blue"}

\* StabilityAIService.generate_image (stability_ai_service.py:21-73):
\* returns None when no API key is set, raises when the request or its
\* processing fails, returns a dictionary holding "image" otherwise.
StabilityOutcomes == {"none", "raises", "image"}

\* BedrockImageGenerator.__init__ (bedrock_image_service.py:44-113):
\* builds the AWS client and raises when that fails.
BedrockInitOutcomes == {"ok", "raises"}

\* db.commit() of create_node: fails on a violated foreign key, and on
\* any failure of the database itself.
CommitOutcomes == {"ok", "raises"}

\* ImageGenService.generate_image(provider=STABILITY_AI): USE_FAKE_DATA
\* forces the mock provider; otherwise Stability AI is asked, and the mock
\* image is returned when it gives no image or raises.
render(use_fake_data, stability, mock) ==
    IF use_fake_data THEN mock
    ELSE IF stability = "image" THEN "b64"
    ELSE mock

\* The handler: the data and the prompt are prepared, ImageGenService is
\* constructed (its constructor constructs both provider clients), the
\* image is rendered, and the node is created; any exception raised on the
\* way is answered 500.  ret.creates counts the calls of create_node,
\* ret.committed tells whether its commit went through.
GenerateImageHandler ==
    \E parent_id \in {NULL} \cup Ids, use_fake_data \in BOOLEAN,
       bedrock_init \in BedrockInitOutcomes,
       stability \in StabilityOutcomes, mock \in MockImages,
       commit \in CommitOutcomes :
        LET image_base64 == render(use_fake_data, stability, mock)
            new_id == nextId
            db_node == Row(new_id, create_is_root(FALSE, parent_id),
                           parent_id, now', image_base64)
        IN  /\ op' = "generate_image"
            /\ arg' = [parent_id |-> parent_id,
                       use_fake_data |-> use_fake_data,
                       bedrock_init |-> bedrock_init,
                       stability |-> stability, commit |-> commit]
            /\ \/ /\ bedrock_init = "raises"
                  /\ ret' = [NoRet EXCEPT !.status = "raised", !.http = 500]
                            @@ [creates |-> 0, committed |-> FALSE]
                  /\ UNCHANGED <<nodes, nextId, now>>
               \/ /\ bedrock_init = "ok"
                  /\ nextId <= MaxNodes
                  /\ now' \in now..MaxTime
                  /\ nextId' = nextId + 1
                  /\ IF fk_satisfied(nodes, new_id, parent_id) /\ commit = "ok"
                     THEN /\ nodes' = nodes @@ (new_id :> db_node)
                          /\ ret' = [NoRet EXCEPT !.status = "ok",
                                        !.http = 201, !.node = <<db_node>>]
                                    @@ [creates |-> 1, committed |-> TRUE]
                     ELSE /\ nodes' = nodes
                          /\ ret' = [NoRet EXCEPT !.status = "raised",
                                        !.http = 500]
                                    @@ [creates |-> 1, committed |-> FALSE]

NextGen == GenerateImageHandler

SpecGen == Init /\ [][NextGen]_vars

\* ------------------------------------------------------------------ C12
\* No provider delivers an image: the mock provider is not forced and
\* Stability AI, the provider the handler selects, returns none or raises.
RendererUnavailable ==
    ~arg.use_fake_data /\ arg.stability \in {"none", "raises"}

\* Nothing stands in the way of the insert: the database commits and the
\* parent named, if any, is stored.
PersistenceHealthy ==
    arg.commit = "ok" /\ (arg.parent_id = NULL \/ arg.parent_id \in StoredIds)

\* C12: if every image provider is unconfigured, lacks credentials,
\* returns no image or raises, generate still persists and returns a Node
\* with a non-null image_base64 (the placeholder) and raises no error:
\* renderer unavailability alone never makes generate fail.
C12_RendererNeverFatal ==
    op = "generate_image" /\ RendererUnavailable /\ PersistenceHealthy =>
        /\ ret.status = "ok" /\ ret.http = 201
        /\ ret.node # <<>>
        /\ ret.node[1].image_base64 \in MockImages
        /\ ret.node[1].id \in StoredIds
        /\ nodes[ret.node[1].id] = ret.node[1]

\* ------------------------------------------------------------------ C13
PersistenceFailed == ret.creates = 1 /\ ~ret.committed

\* C13: in the generate flow only a persistence failure is fatal: when the
\* create step fails, generate reports an error, does not retry and the
\* store holds no new node; when persistence succeeds, generate succeeds
\* whatever the outcome of rendering.
C13_OnlyPersistenceFatal ==
    op = "generate_image" =>
        /\ ret.status = "raised" => PersistenceFailed
        /\ PersistenceFailed =>
               /\ ret.status = "raised" /\ ret.http = 500
               /\ ret.node = <<>>
               /\ (nextId - 1) \notin StoredIds
        /\ ret.creates <= 1
        /\ ret.committed =>
               /\ ret.status = "ok" /\ ret.http = 201
               /\ ret.node[1].id = nextId - 1
               /\ nodes[nextId - 1] = ret.node[1]

\* =====================================================================
\* Attribute extraction: TextGenService.text_to_image_attributes
\* (services/text_gen_service.py:231-384) and the provider calls
\* _call_openai_api, _call_nova_api, _call_claude_api (387-491).
\* =====================================================================

MaxPromptWords == 2  \* words in a prompt: 0..MaxPromptWords

\* A prompt is None (a request that uploads an image only,
\* text_gen_endpoints.py:14,47) or a text, kept as its words.
Text(words) == [is_none |-> FALSE, values |-> words]

PromptWords == {"red", "cube", "fast"}

WordSeqs(n) == UNION {[1..k -> PromptWords] : k \in 0..n}

Prompts == {None} \cup {Text(ws) : ws \in WordSeqs(MaxPromptWords)}

\* The provider argument: not given, one of the three providers, or any
\* other string.
ExtractProviders == {"unset", "openai", "nova", "claude", "other"}

\* What asking a provider can come to: the request raises, the answer has
\* a status other than 200, the answer is not JSON, it is JSON but not an
\* object, it is an object with a value that is not a list of strings, or
\* it is an object of lists.
ProviderOutcomes ==
    {"raises", "non_success", "unparsable", "not_object", "bad_shape",
     "attributes"}

\* The fields of PCCaseAttributes as text_gen_service imports it
\* (schemas/text_gen/domain.py:5-13).
AttributeKeys ==
    {"color", "style", "shape", "material", "ventilation", "lighting",
     "features"}

\* PCCaseAttributes(): every field None.
EmptyAttributes == [k \in AttributeKeys |-> None]

\* A Python value handed back by a provider call: a dict from keys to
\* lists of strings (or to something else), or a value that is no dict.
Dict(items) == [kind |-> "dict", items |-> items]
NotADict == [kind |-> "list", items |-> <<>>]
ListValue(values) == [type |-> "list", values |-> values]
StrValue == [type |-> "str", values |-> <<>>]

EmptyDict == Dict(<<>>)

\* _call_openai_api / _call_nova_api / _call_claude_api: every exception
\* and every non-200 answer gives {}; otherwise json.loads of the text.
call_api(outcome) ==
    CASE outcome \in {"raises", "non_success", "unparsable"} -> EmptyDict
      [] outcome = "not_object" -> NotADict
      [] outcome = "bad_shape" ->
             Dict([k \in {"color"} |-> StrValue])
      [] outcome = "attributes" ->
             Dict([k \in {"color", "shape"} |->
                     IF k = "color" THEN ListValue(<<"Black", "Red">>)
                     ELSE ListValue(<<"Cube">>)])

\* Keywords of _mock_extract_attributes that the prompts can hold, and
\* their title-case form.
MockKeywords ==
    [shape |-> <<"cube">>, color |-> <<"black", "red">>]

Title == [cube |-> "Cube", black |-> "Black", red |-> "Red"]

\* _mock_extract_attributes: for each attribute, the keywords found in
\* the prompt, in keyword order; an attribute with no match gets no key.
mock_extract_attributes(prompt) ==
    LET found(k) == SelectSeq(MockKeywords[k],
                              LAMBDA w : w \in Range(prompt.values))
        keys == {k \in DOMAIN MockKeywords : found(k) # <<>>}
    IN  Dict([k \in keys |->
                 ListValue([i \in 1..Len(found(k)) |-> Title[found(k)[i]]])])

\* PCCaseAttributes(**attributes_dict) succeeds on a dict whose values
\* are lists; keys outside the model's fields are dropped.
constructible(d) ==
    /\ d.kind = "dict"
    /\ \A k \in DOMAIN d.items \cap AttributeKeys : d.items[k].type = "list"

construct(d) ==
    [k \in AttributeKeys |->
        IF k \in DOMAIN d.items THEN List(d.items[k].values) ELSE None]

\* A call that returned a value, and a call that raised.
Returned(value) == [raised |-> FALSE, value |-> value]
Raised == [raised |-> TRUE, value |-> <<>>]

\* ToSpec(prompt=..., attributes=..., structured_prompt=...): prompt and
\* structured_prompt are required strings, None fails validation.
ToSpec(prompt, attributes, structured_prompt) ==
    IF prompt.is_none \/ structured_prompt.is_none THEN Raised
    ELSE Returned([prompt |-> prompt, attributes |-> attributes,
                   structured_prompt |-> structured_prompt])

\* The provider that is asked (text_gen_service.py:241-247).
select_provider(provider, use_fake_data, aws_credentials) ==
    LET given == IF provider = "unset"
                 THEN (IF ~use_fake_data THEN "openai" ELSE "mock")
                 ELSE provider
    IN  IF given \in {"nova", "claude"} /\ ~aws_credentials THEN "mock"
        ELSE given

\* The except block (text_gen_service.py:376-384): empty attributes, and
\* the prompt in both text fields.
except_body(prompt) == ToSpec(prompt, EmptyAttributes, prompt)

\* text_to_image_attributes: the try block asks the provider or the mock
\* extraction, builds the attributes and the result; whatever raises in
\* it is handled by the except block, which builds a result itself.
text_to_image_attributes(prompt, provider, fake_data, credentials, outcome) ==
    LET selected == select_provider(provider, fake_data, credentials)
        uses_api == selected \in {"openai", "nova", "claude"}
        mock_raises == ~uses_api /\ prompt.is_none
        d == IF uses_api THEN call_api(outcome)
             ELSE IF mock_raises THEN EmptyDict
             ELSE mock_extract_attributes(prompt)
        tried == IF mock_raises \/ ~constructible(d) THEN Raised
                 ELSE ToSpec(prompt, construct(d), Text(<<>>))
    IN  IF tried.raised THEN except_body(prompt) ELSE tried

TextToImageAttributes ==
    /\ op' = "text_to_image_attributes"
    /\ ret' = text_to_image_attributes(arg.prompt, arg.provider,
                  arg.use_fake_data, arg.aws_credentials, arg.outcome)
    /\ UNCHANGED <<nodes, nextId, now, arg>>

InitExtract ==
    /\ nodes = <<>>
    /\ nextId = 1
    /\ now = 0
    /\ op = "init"
    /\ arg \in [prompt : Prompts, provider : ExtractProviders,
                use_fake_data : BOOLEAN, aws_credentials : BOOLEAN,
                outcome : ProviderOutcomes]
    /\ ret = NoRet

NextExtract == TextToImageAttributes

SpecExtract == InitExtract /\ [][NextExtract]_vars

\* ------------------------------------------------------------------ C14
Selected ==
    select_provider(arg.provider, arg.use_fake_data, arg.aws_credentials)

\* The provider asked failed: it raised, answered with a non-success
\* status or with output that does not parse.
ProviderFailed ==
    /\ Selected \in {"openai", "nova", "claude"}
    /\ arg.outcome \in {"raises", "non_success", "unparsable"}

\* The AWS provider asked for has no credentials.
CredentialsMissing ==
    arg.provider \in {"nova", "claude"} /\ ~arg.aws_credentials

\* C14: attribute extraction never fails its caller: when the selected
\* provider raises, returns a non-success status or unparsable output, or
\* lacks credentials, text_to_image_attributes returns a result whose
\* attribute set is empty (the mock extraction when credentials are
\* missing) instead of raising.
C14_ExtractionNeverRaises ==
    op = "text_to_image_attributes" =>
        /\ ProviderFailed =>
               /\ ~ret.raised
               /\ \A k \in AttributeKeys : ~truthy(ret.value.attributes[k])
        /\ CredentialsMissing =>
               /\ ~ret.raised
               /\ \A k \in AttributeKeys :
                      truthy(ret.value.attributes[k]) =>
                          /\ k \in DOMAIN MockKeywords
                          /\ \A i \in 1..Len(ret.value.attributes[k].values) :
                                 \E w \in Range(arg.prompt.values) :
                                     ret.value.attributes[k].values[i]
                                         = Title[w]

\* ------------------------------------------------------------------ C17
\* The nodes without parent that following parent_id from n arrives at.
PathRoots(n) ==
    {r \in {n} \cup AncestorsOf(n) : ParentOf(r) = NULL}

Occurrences(s, x) == Cardinality({i \in 1..Len(s) : s[i] = x})

\* The ids of the tree get_node_tree returns for a node without parent.
TreeIdsOfRoot(r, scan) ==
    tree_ids(root_of(descendants_cte(nodes, r, scan).rows, r))

\* C17: every node N of every reachable store belongs to exactly one
\* lineage path: following parent_id from N reaches exactly one node R
\* with parent_id null, R is flagged is_root, and N occurs exactly once in
\* get_node_tree(R) and in the tree of no other root.
C17_OneLineagePath ==
    \A n \in StoredIds :
        /\ Cardinality(PathRoots(n)) = 1
        /\ \A r \in PathRoots(n) : nodes[r].is_root
        /\ \A r \in StoredIds, scan \in ScanOrders(StoredIds) :
               ParentOf(r) = NULL =>
                   Occurrences(TreeIdsOfRoot(r, scan), n)
                       = IF r \in PathRoots(n) THEN 1 ELSE 0

\* =====================================================================
\* Requests in flight together: POST /image-gen/generate and POST /node/
\* (image_gen_endpoints.py:13-65, node_endpoints.py:80-93), each in its
\* own database session (db/session.py), their steps interleaved.
\* In this part arg and ret hold, for every request, its local state and
\* its answer; nodes holds the committed rows.
\* =====================================================================

MaxRequests == 2     \* requests in flight together: 1..MaxRequests

Requests == 1..MaxRequests

\* What a request is made with: the route, and the is_root and parent_id
\* it carries.  Every request in flight is made with the same input.
RequestInputs ==
    [kind : {"generate", "create_node"}, is_root : BOOLEAN,
     parent_id : {NULL, 1}]

\* The local state of a request that has not taken a step.
NewRequest(input) ==
    [pc |-> "start", kind |-> input.kind,
     is_root |-> IF input.kind = "generate" THEN FALSE ELSE input.is_root,
     parent_id |-> input.parent_id, image_base64 |-> "b64",
     id |-> NULL, row |-> <<>>]

\* The table when the requests arrive: empty, or holding one root.
InitialStores == {<<>>, <<Row(1, TRUE, NULL, 0, "b64")>>}

InitConc ==
    /\ nodes \in InitialStores
    /\ nextId = Len(nodes) + 1
    /\ now = 0
    /\ op = "init"
    /\ \E input \in RequestInputs :
           arg = [r \in Requests |-> NewRequest(input)]
    /\ ret = [r \in Requests |-> NoRet]

\* generate: the image is rendered before the store is touched.
Render(r) ==
    /\ arg[r].kind = "generate" /\ arg[r].pc = "start"
    /\ \E image \in {"b64"} \cup MockImages :
           arg' = [arg EXCEPT ![r].pc = "rendered",
                              ![r].image_base64 = image]
    /\ op' = "render"
    /\ UNCHANGED <<nodes, nextId, now, ret>>

\* The id given to a row gone wrong: one more than the largest id the
\* session can see, instead of the next value of the sequence.
next_id_from_max(store, sequence) ==
    IF DOMAIN store = {} THEN 1
    ELSE (CHOOSE m \in DOMAIN store : \A n \in DOMAIN store : n <= m) + 1

\* models/node.py:13: id is the primary key, filled from the table's
\* sequence, which hands every value out once.
next_id(store, sequence) == sequence

\* create_node up to the INSERT that db.commit() flushes: the row takes
\* its id and the clock reading, and the foreign key is checked against
\* the committed rows and the row itself.  The row is not yet visible to
\* other sessions.
InsertRow(r) ==
    LET new_id == next_id(nodes, nextId)
        db_node == Row(new_id,
                       create_is_root(arg[r].is_root, arg[r].parent_id),
                       arg[r].parent_id, now', arg[r].image_base64)
    IN  /\ \/ arg[r].kind = "generate" /\ arg[r].pc = "rendered"
           \/ arg[r].kind = "create_node" /\ arg[r].pc = "start"
        /\ now' \in now..MaxTime
        /\ nextId' = nextId + 1
        /\ op' = "insert"
        /\ IF fk_satisfied(nodes, new_id, arg[r].parent_id)
           THEN /\ arg' = [arg EXCEPT ![r].pc = "flushed", ![r].id = new_id,
                                      ![r].row = <<db_node>>]
                /\ ret' = ret
           ELSE /\ arg' = [arg EXCEPT ![r].pc = "failed"]
                /\ ret' = [ret EXCEPT ![r] =
                              [NoRet EXCEPT !.status = "raised", !.http = 500]]
        /\ nodes' = nodes

\* The COMMIT of db.commit(): the row becomes a row of the table.
Commit(r) ==
    /\ arg[r].pc = "flushed"
    /\ nodes' = (arg[r].id :> arg[r].row[1]) @@ nodes
    /\ arg' = [arg EXCEPT ![r].pc = "committed"]
    /\ op' = "commit"
    /\ UNCHANGED <<nextId, now, ret>>

\* db.refresh(db_node) and the return: the row is read back by its id.
Refresh(r) ==
    /\ arg[r].pc = "committed"
    /\ arg' = [arg EXCEPT ![r].pc = "done"]
    /\ ret' = [ret EXCEPT ![r] =
                  [NoRet EXCEPT !.status = "ok",
                      !.http = IF arg[r].kind = "generate" THEN 201 ELSE 200,
                      !.node = select_by_id(nodes, arg[r].id)]]
    /\ op' = "refresh"
    /\ UNCHANGED <<nodes, nextId, now>>

NextConc ==
    \E r \in Requests : Render(r) \/ InsertRow(r) \/ Commit(r) \/ Refresh(r)

SpecConc == InitConc /\ [][NextConc]_vars

\* ------------------------------------------------------------------ C15
\* The requests whose INSERT went through, and those that committed.
Persisting == {r \in Requests : arg[r].pc \in {"flushed", "committed", "done"}}
Committed == {r \in Requests : arg[r].pc \in {"committed", "done"}}

\* The row that request r asked for is the row stored under its id.
OwnRowStored(r) ==
    /\ arg[r].id \in StoredIds
    /\ nodes[arg[r].id].id = arg[r].id
    /\ nodes[arg[r].id].parent_id = arg[r].parent_id
    /\ nodes[arg[r].id].image_base64 = arg[r].image_base64
    /\ nodes[arg[r].id] = arg[r].row[1]

\* C15: generate (or create_node) requests with identical inputs whose
\* steps interleave in any order each produce their own Node: the nodes
\* have pairwise distinct ids and no request's node is lost or overwritten
\* by another.
C15_ConcurrentCreatesIndependent ==
    /\ \A r, q \in Persisting : r # q => arg[r].id # arg[q].id
    /\ \A r \in Committed : OwnRowStored(r)
    /\ StoredIds \ {arg[r].id : r \in Committed} \subseteq {1}
    /\ Cardinality(StoredIds) >= Cardinality(Committed)
    /\ \A r \in Requests :
           arg[r].pc = "done" =>
               /\ ret[r].status = "ok"
               /\ ret[r].node = <<nodes[arg[r].id]>>
               /\ ret[r].node[1].id = arg[r].id

\* Both requests rendered different images before either inserted, and
\* both are answered.
C15_Witness ==
    /\ \A r \in Requests : arg[r].pc = "done"
    /\ arg[1].kind = "generate"
    /\ arg[1].image_base64 # arg[2].image_base64
    /\ arg[1].id = 2 /\ arg[2].id = 1

\* =====================================================================
\* One read call, get_image_lineage (image_service.py:62-112) or
\* get_node_tree (node_service.py:53-99), taken query by query while
\* other requests create nodes.  Every query sees the rows committed when
\* it runs.  In this part arg holds the local variables of the read call.
\* =====================================================================

MaxStaleNodes == 3   \* values the id sequence hands out: 1..MaxStaleNodes

\* The read call before its first query.
Idle ==
    [pc |-> "idle", kind |-> "none", node_id |-> NULL, started |-> {},
     current |-> <<>>, ancestors |-> <<>>, descendants |-> <<>>,
     all_descendants |-> <<>>, i |-> 0]

InitStale ==
    /\ nodes = <<>>
    /\ nextId = 1
    /\ now = 0
    /\ op = "init"
    /\ arg = Idle
    /\ ret = NoRet

\* The INSERT gone wrong: the new node is put between its parent and the
\* parent's children, which are rewritten to point at it.
insert_between(store, db_node) ==
    [n \in DOMAIN store \cup {db_node.id} |->
        IF n = db_node.id THEN db_node
        ELSE IF store[n].parent_id = db_node.parent_id
                /\ db_node.parent_id # NULL
        THEN [store[n] EXCEPT !.parent_id = db_node.id]
        ELSE store[n]]

\* db.add(db_node); db.commit(): one row more, the others as they were.
insert(store, db_node) == store @@ (db_node.id :> db_node)

\* NodeService.create_node run to its end by another request.
ConcurrentCreate ==
    \E is_root \in BOOLEAN, parent_id \in {NULL} \cup 1..MaxStaleNodes :
        LET new_id == nextId
            db_node == Row(new_id, create_is_root(is_root, parent_id),
                           parent_id, now', "b64")
        IN  /\ nextId <= MaxStaleNodes
            /\ now' \in now..MaxTime
            /\ nextId' = nextId + 1
            /\ nodes' = IF fk_satisfied(nodes, new_id, parent_id)
                        THEN insert(nodes, db_node) ELSE nodes
            /\ UNCHANGED <<op, arg, ret>>

\* image_service.py:67-78: the image is looked up with its parent; a
\* missing image ends the call with the empty lineage.
BeginLineage ==
    \E image_id \in 1..MaxStaleNodes :
        LET image == select_by_id(nodes, image_id)
        IN  /\ arg.pc = "idle"
            /\ op' = "get_image_lineage"
            /\ IF image = <<>>
               THEN /\ arg' = [arg EXCEPT !.pc = "done",
                                  !.kind = "lineage", !.node_id = image_id,
                                  !.started = DOMAIN nodes]
                    /\ ret' = [NoRet EXCEPT !.status = "ok"]
               ELSE /\ arg' = [arg EXCEPT !.pc = "ancestors",
                                  !.kind = "lineage", !.node_id = image_id,
                                  !.started = DOMAIN nodes,
                                  !.current =
                                      select_by_id(nodes, image[1].parent_id)]
                    /\ ret' = ret
            /\ UNCHANGED <<nodes, nextId, now>>

\* image_service.py:80-87: one turn of the while loop and its query.  A
\* walk longer than the table has entered a cycle and never ends.
AncestorQuery ==
    /\ arg.pc = "ancestors" /\ arg.current # <<>>
    /\ arg' = IF Len(arg.ancestors) > Cardinality(DOMAIN nodes)
              THEN [arg EXCEPT !.pc = "diverges"]
              ELSE [arg EXCEPT
                       !.ancestors = arg.ancestors \o arg.current,
                       !.current =
                           select_by_id(nodes, arg.current[1].parent_id)]
    /\ UNCHANGED <<nodes, nextId, now, op, ret>>

\* image_service.py:89-99: the query for the direct children.
ChildrenQuery ==
    \E scan \in ScanOrders(DOMAIN nodes) :
        LET descendants == select_children(nodes, arg.node_id, scan)
        IN  /\ arg.pc = "ancestors" /\ arg.current = <<>>
            /\ arg' = [arg EXCEPT !.pc = "grandchildren",
                          !.descendants = descendants,
                          !.all_descendants = descendants, !.i = 1]
            /\ UNCHANGED <<nodes, nextId, now, op, ret>>

\* image_service.py:101-107: one turn of the for loop and its query.
GrandchildrenQuery ==
    \E scan \in ScanOrders(DOMAIN nodes) :
        /\ arg.pc = "grandchildren" /\ arg.i <= Len(arg.descendants)
        /\ arg' = [arg EXCEPT
                      !.all_descendants =
                          arg.all_descendants \o
                          select_children(nodes, arg.descendants[arg.i].id,
                                          scan),
                      !.i = arg.i + 1]
        /\ UNCHANGED <<nodes, nextId, now, op, ret>>

\* image_service.py:109-112
ReturnLineage ==
    /\ arg.pc = "grandchildren" /\ arg.i > Len(arg.descendants)
    /\ arg' = [arg EXCEPT !.pc = "done"]
    /\ ret' = [NoRet EXCEPT !.status = "ok", !.ancestors = arg.ancestors,
                  !.descendants = arg.all_descendants]
    /\ UNCHANGED <<nodes, nextId, now, op>>

\* node_service.py:58-60: the lookup that tells whether the node exists.
BeginTree ==
    \E node_id \in 1..MaxStaleNodes :
        LET node == select_by_id(nodes, node_id)
        IN  /\ arg.pc = "idle"
            /\ op' = "get_node_tree"
            /\ IF node = <<>>
               THEN /\ arg' = [arg EXCEPT !.pc = "done", !.kind = "tree",
                                  !.node_id = node_id,
                                  !.started = DOMAIN nodes]
                    /\ ret' = [NoRet EXCEPT !.status = "none"]
               ELSE /\ arg' = [arg EXCEPT !.pc = "cte", !.kind = "tree",
                                  !.node_id = node_id,
                                  !.started = DOMAIN nodes]
                    /\ ret' = ret
            /\ UNCHANGED <<nodes, nextId, now>>

\* node_service.py:62-99: the recursive query, one statement, and the
\* tree built from its rows.
CteQuery ==
    \E scan \in ScanOrders(DOMAIN nodes) :
        LET cte == descendants_cte(nodes, arg.node_id, scan)
        IN  /\ arg.pc = "cte"
            /\ IF cte.done
               THEN /\ arg' = [arg EXCEPT !.pc = "done"]
                    /\ ret' = [NoRet EXCEPT !.status = "ok",
                                  !.tree = <<root_of(cte.rows, arg.node_id)>>]
               ELSE /\ arg' = [arg EXCEPT !.pc = "diverges"]
                    /\ ret' = ret
            /\ UNCHANGED <<nodes, nextId, now, op>>

NextStale ==
    \/ ConcurrentCreate
    \/ BeginLineage \/ AncestorQuery \/ ChildrenQuery
    \/ GrandchildrenQuery \/ ReturnLineage
    \/ BeginTree \/ CteQuery

SpecStale == InitStale /\ [][NextStale]_vars

\* ------------------------------------------------------------------ C16
\* The call has returned a result for a node that was stored.
LineageReturned ==
    arg.kind = "lineage" /\ arg.pc = "done" /\ arg.node_id \in arg.started

TreeReturned ==
    arg.kind = "tree" /\ arg.pc = "done" /\ arg.node_id \in arg.started

AllStored(rows) == \A i \in 1..Len(rows) : rows[i] = nodes[rows[i].id]

\* C16: when create_node operations interleave with the queries of one
\* lineage or tree call the result is at worst stale: every returned node
\* is a stored node with its stored fields, every ancestor a true
\* ancestor, every descendant a true child or grandchild (lineage) or a
\* true transitive descendant below its true parent (tree), the ancestors
\* are those obtained without interleaving, and only nodes created during
\* the call can be missing.
C16_InterleavedReadsAtWorstStale ==
    /\ LineageReturned =>
           LET x == arg.node_id
               alone == get_image_lineage(nodes, x, Ascending(DOMAIN nodes))
           IN  /\ AllStored(ret.ancestors) /\ AllStored(ret.descendants)
               /\ Range(IdsOf(ret.ancestors)) \subseteq AncestorsOf(x)
               /\ ret.ancestors = alone.ancestors
               /\ Range(IdsOf(ret.descendants)) \subseteq TwoLevels(x)
               /\ NoRepeats(IdsOf(ret.descendants))
               /\ TwoLevels(x) \ Range(IdsOf(ret.descendants))
                      \subseteq StoredIds \ arg.started
    /\ TreeReturned =>
           LET x == arg.node_id
               t == ret.tree[1]
           IN  /\ t.node.id = x
               /\ well_attached(t)
               /\ NoRepeats(tree_ids(t))
               /\ Range(tree_ids(t)) \subseteq {x} \cup DescendantsOf(x)
               /\ ({x} \cup DescendantsOf(x)) \ Range(tree_ids(t))
                      \subseteq StoredIds \ arg.started

\* A lineage came back without a child that was created after the query
\* for the children ran.
C16_Witness ==
    /\ LineageReturned
    /\ ChildrenOf(arg.node_id) # {}
    /\ ret.descendants = <<>>

\* ------------------------------------------------------------------ C21
\* C21: the root listing returns the nodes without parent: every node
\* list_root_nodes returns has parent_id null, and total is the number of
\* stored nodes with parent_id null.
C21_ListedRootsHaveNoParent ==
    op = "get_root_nodes" =>
        /\ \A i \in 1..Len(ret.nodes) : ret.nodes[i].parent_id = NULL
        /\ ret.total = Cardinality({n \in StoredIds : ParentOf(n) = NULL})

\* ------------------------------------------------------------------ C22
\* The text of the Attribute-to-Prompt Composer for an attribute set, the
\* lead-in either joined like a clause or run into the first clause.
ComposerTexts(a) ==
    LET clauses == <<ShapeStyleClause(a)>> \o CategoryClauses(a)
    IN  {join("; ", <<"A high-resolution render of">> \o clauses) \o ".",
         "A high-resolution render of " \o join("; ", clauses) \o "."}

\* C22: in the generate flow the prompt handed to the image renderer is
\* the output of the Attribute-to-Prompt Composer applied to the request's
\* attributes, the semicolon-joined "A high-resolution render of ..." text.
C22_RendererGetsComposedPrompt ==
    op = "generate_image_prompt" =>
        /\ ret.prompt \in ComposerTexts(arg.attributes)
        /\ ret.request_params.prompt = ret.prompt

\* ------------------------------------------------------------------ C23
\* The last operation was a generate request that persisted its node.
GeneratePersisted == op = "generate" /\ ret.status = "ok"

\* C23: a node persisted by the generate flow is a root exactly when the
\* request carried no parent_id, and its parent_id is the request's; the
\* request hands no is_root of its own to create_node.
C23_GenerateRootIffNoParent ==
    GeneratePersisted =>
        LET node == ret.node[1]
        IN  /\ node.id \in StoredIds /\ nodes[node.id] = node
            /\ node.is_root <=> arg.parent_id = NULL
            /\ node.parent_id = arg.parent_id
            /\ arg.is_root = FALSE

\* Generate requests persisted one node without parent and one with.
C23_Witness ==
    /\ GeneratePersisted
    /\ ret.node[1].parent_id # NULL /\ ~ret.node[1].is_root
    /\ \E n \in StoredIds : nodes[n].is_root /\ ParentOf(n) = NULL

\* ------------------------------------------------------------------ C24
\* The depth of a node: the parent_id links between it and a node without
\* parent, counted over at most k links.
RECURSIVE DepthOf(_, _)
DepthOf(n, k) ==
    IF k = 0 \/ ParentOf(n) = NULL \/ ParentOf(n) \notin StoredIds THEN 0
    ELSE 1 + DepthOf(ParentOf(n), k - 1)

\* C24: for every stored node the ancestor walk of get_lineage ends; it
\* takes as many hops as the node is deep and stops at the first node
\* whose parent_id is null.
C24_AncestorWalkTerminates ==
    (op = "get_image_lineage" /\ arg.node_id \in StoredIds) =>
        /\ ret.status = "ok"
        /\ Len(ret.ancestors) = DepthOf(arg.node_id, Cardinality(StoredIds))
        /\ \A i \in 1..Len(ret.ancestors) :
              ret.ancestors[i].parent_id = NULL <=> i = Len(ret.ancestors)

\* ======================================================================
\* Lineage of deeper trees: the store grows to MaxLineageNodes nodes and
\* get_image_lineage is called on it.  The lineage queries do not read
\* created_at, and the clock stays at its first reading.
\* ======================================================================
MaxLineageNodes == 5

\* NodeService.create_node (node_service.py:16-40) on the larger store.
CreateLineageNode ==
    \E parent_id \in {NULL} \cup 1..MaxLineageNodes :
        LET new_id == nextId
            db_node == Row(new_id, create_is_root(FALSE, parent_id),
                           parent_id, now, "b64")
        IN  /\ nextId <= MaxLineageNodes
            /\ nextId' = nextId + 1
            /\ op' = "create_node"
            /\ arg' = [NoArg EXCEPT !.parent_id = parent_id]
            /\ IF fk_satisfied(nodes, new_id, parent_id)
               THEN /\ nodes' = insert(nodes, db_node)
                    /\ ret' = [NoRet EXCEPT !.status = "ok", !.http = 200,
                                  !.node = <<db_node>>]
               ELSE /\ nodes' = nodes
                    /\ ret' = [NoRet EXCEPT !.status = "raised", !.http = 500]
            /\ UNCHANGED now

\* ImageService.get_image_lineage (image_service.py:62-112) on the larger
\* store.
LineageOfNode ==
    \E image_id \in 1..MaxLineageNodes, scan \in ScanOrders(DOMAIN nodes) :
        /\ op' = "get_image_lineage"
        /\ arg' = [NoArg EXCEPT !.node_id = image_id]
        /\ ret' = get_image_lineage(nodes, image_id, scan)
        /\ UNCHANGED <<nodes, nextId, now>>

NextLineage == CreateLineageNode \/ LineageOfNode

SpecLineage == Init /\ [][NextLineage]_vars

\* ------------------------------------------------------------------ C25
\* get_lineage returned the lineage of a stored node.
LineageOfStored ==
    op = "get_image_lineage" /\ ret.status = "ok" /\ arg.node_id \in StoredIds

\* The position of the node with this id in a list of rows, 0 if absent.
PositionOf(rows, id) ==
    IF \E i \in 1..Len(rows) : rows[i].id = id
    THEN CHOOSE i \in 1..Len(rows) : rows[i].id = id
    ELSE 0

\* C25: in get_lineage(X).descendants all direct children of X come before
\* all grandchildren, and the grandchildren are grouped by their parent,
\* the groups in the order in which the children were listed.
C25_ChildrenThenGroupedGrandchildren ==
    LineageOfStored =>
        LET d == ret.descendants
            x == arg.node_id
            children == SelectSeq(d, LAMBDA row : row.parent_id = x)
            k == Len(children)
        IN  /\ \A i \in 1..Len(d) : d[i].parent_id = x <=> i <= k
            /\ \A i \in (k + 1)..Len(d) :
                  PositionOf(children, d[i].parent_id) \in 1..k
            /\ \A i, j \in (k + 1)..Len(d) :
                  i < j => PositionOf(children, d[i].parent_id)
                              <= PositionOf(children, d[j].parent_id)

\* Two children were listed, each followed later by its own children, and
\* the order of the grandchildren is not the order of their ids.
C25_Witness ==
    /\ LineageOfStored
    /\ Cardinality(ChildrenOf(arg.node_id)) >= 2
    /\ \E i, j \in 1..Len(ret.descendants) :
          /\ i < j
          /\ ret.descendants[i].parent_id # arg.node_id
          /\ ret.descendants[j].parent_id # arg.node_id
          /\ ret.descendants[i].parent_id # ret.descendants[j].parent_id
          /\ ret.descendants[i].id > ret.descendants[j].id
    /\ \E i, j \in 1..Len(ret.descendants) :
          /\ i < j
          /\ ret.descendants[i].parent_id = arg.node_id
          /\ ret.descendants[j].parent_id # arg.node_id
          /\ ret.descendants[i].id > ret.descendants[j].id

\* ------------------------------------------------------------------ C26
\* A step that is a create_node or generate call naming a parent that is
\* not stored when the call begins.
CreateUnderMissingParent ==
    /\ nextId' # nextId
    /\ op' \in {"create_node", "generate"}
    /\ arg'.parent_id # NULL
    /\ arg'.parent_id \notin StoredIds

C26_Step ==
    CreateUnderMissingParent =>
        /\ ret'.status = "raised" /\ ret'.http = 500
        /\ nodes' = nodes

\* C26: a create_node or generate call whose parent_id is non-null and not
\* the id of a node already stored fails with an error to the caller and
\* leaves the store unchanged; a node is only ever created with a parent
\* that existed before the call.
C26_MissingParentRejected == [][C26_Step]_vars

\* ======================================================================
\* Provider selection: ImageGenService.generate_image
\* (image_gen_service.py:35-113)
\* ======================================================================
\* The provider argument: None or a member of ImageProvider
\* (image_gen_service.py:19-22, 39).
ProviderArguments == {"None", "stability_ai", "aws_bedrock", "mock"}

\* Values of the IMAGE_PROVIDER environment variable (image_gen_service.py:29).
DefaultProviders == {"stability_ai", "AWS_BEDROCK", "aws_bedrock", "mock", "dall-e"}

\* str.lower() on those values.
lower(s) == IF s = "AWS_BEDROCK" THEN "aws_bedrock" ELSE s

\* BedrockImageGenerator.generate_image (bedrock_image_service.py:251-380)
\* catches its own exceptions: it returns a dictionary holding "error", or
\* one holding "image".
BedrockOutcomes == {"error", "image"}

\* generate_image gone wrong: USE_FAKE_DATA is looked at only when no
\* provider is given, so an explicit provider argument wins over it.
generate_image_explicit(use_fake_data, provider, default, credentials, stability, bedrock, mock) ==
    LET resolved == IF provider # "None" THEN provider
                    ELSE IF use_fake_data THEN "mock"
                    ELSE IF lower(default) = "stability_ai" THEN "stability_ai"
                    ELSE IF lower(default) = "aws_bedrock" THEN "aws_bedrock"
                    ELSE "mock"
        selected == IF resolved = "aws_bedrock" /\ ~credentials
                    THEN "mock" ELSE resolved
    IN  IF selected = "stability_ai"
        THEN [called |-> {"stability_ai"},
              image |-> IF stability = "image" THEN "b64" ELSE mock]
        ELSE IF selected = "aws_bedrock"
        THEN [called |-> {"aws_bedrock"},
              image |-> IF bedrock = "image" THEN "b64" ELSE mock]
        ELSE [called |-> {}, image |-> mock]

\* ImageGenService.generate_image: called is the set of external providers
\* whose generate_image was invoked, image the base64 text returned.
generate_image(use_fake_data, provider, default, credentials, stability, bedrock, mock) ==
    LET forced == IF use_fake_data THEN "mock" ELSE provider
        resolved == IF forced # "None" THEN forced
                    ELSE IF lower(default) = "stability_ai" THEN "stability_ai"
                    ELSE IF lower(default) = "aws_bedrock" THEN "aws_bedrock"
                    ELSE "mock"
        selected == IF resolved = "aws_bedrock" /\ ~credentials
                    THEN "mock" ELSE resolved
    IN  IF selected = "stability_ai"
        THEN [called |-> {"stability_ai"},
              image |-> IF stability = "image" THEN "b64" ELSE mock]
        ELSE IF selected = "aws_bedrock"
        THEN [called |-> {"aws_bedrock"},
              image |-> IF bedrock = "image" THEN "b64" ELSE mock]
        ELSE [called |-> {}, image |-> mock]

\* One call of generate_image; mock is the outcome of random.choice in
\* _get_mock_image (image_gen_service.py:185-197).
GenerateImageCall ==
    \E use_fake_data \in BOOLEAN, provider \in ProviderArguments,
       default \in DefaultProviders, credentials \in BOOLEAN,
       stability \in StabilityOutcomes, bedrock \in BedrockOutcomes,
       mock \in MockImages :
        /\ op' = "image_gen_generate_image"
        /\ arg' = [use_fake_data |-> use_fake_data, provider |-> provider,
                   default |-> default, credentials |-> credentials,
                   stability |-> stability, bedrock |-> bedrock]
        /\ ret' = generate_image(use_fake_data, provider, default,
                                 credentials, stability, bedrock, mock)
        /\ UNCHANGED <<nodes, nextId, now>>

NextRender == GenerateImageCall

SpecRender == Init /\ [][NextRender]_vars

\* ------------------------------------------------------------------ C27
\* AWS Bedrock is the provider the call would use: given as argument, or
\* the IMAGE_PROVIDER default when no provider is given.
BedrockSelected ==
    \/ arg.provider = "aws_bedrock"
    \/ arg.provider = "None" /\ lower(arg.default) = "aws_bedrock"

\* C27: when USE_FAKE_DATA is true generate_image calls no external
\* provider, whatever provider argument or IMAGE_PROVIDER default is given,
\* and returns a mock image; when the selected provider is AWS Bedrock and
\* the AWS credentials are missing, Bedrock is not called and a mock image
\* is returned.
C27_FakeDataAndMissingCredentialsMock ==
    op = "image_gen_generate_image" =>
        /\ arg.use_fake_data =>
              ret.called = {} /\ ret.image \in MockImages
        /\ BedrockSelected /\ ~arg.credentials =>
              "aws_bedrock" \notin ret.called /\ ret.image \in MockImages

\* Real data is asked for from a Bedrock that would deliver an image, the
\* credentials are missing, and a mock image came back.
C27_Witness ==
    /\ op = "image_gen_generate_image"
    /\ ~arg.use_fake_data /\ BedrockSelected /\ ~arg.credentials
    /\ arg.bedrock = "image"
    /\ ret.called = {} /\ ret.image \in MockImages

\* ======================================================================
\* get_root_nodes query by query, with other requests creating nodes in
\* between (node_service.py:139-167).  arg holds the locals of the call:
\* pc its position, counted and paged the ids stored when the count query
\* and the page query ran.
\* ======================================================================
MaxListNodes == 2

ListIdle ==
    [pc |-> "idle", page |-> 0, page_size |-> 0, total |-> 0,
     nodes |-> <<>>, counted |-> {}, paged |-> {}]

InitPaging ==
    /\ nodes = <<>>
    /\ nextId = 1
    /\ now = 0
    /\ op = "init"
    /\ arg = ListIdle
    /\ ret = NoRet

\* node_service.py:150-153: the count query.
CountQuery ==
    \E page \in 1..MaxPage, page_size \in 1..MaxPageSize :
        /\ arg.pc \in {"idle", "returned"}
        /\ op' = "get_root_nodes"
        /\ arg' = [ListIdle EXCEPT !.pc = "counted", !.page = page,
                                   !.page_size = page_size,
                                   !.total = count_roots(nodes),
                                   !.counted = DOMAIN nodes]
        /\ ret' = NoRet
        /\ UNCHANGED <<nodes, nextId, now>>

\* node_service.py:156-165: the page query.
PageQuery ==
    \E scan \in ScanOrders(DOMAIN nodes) :
        LET selected == {n \in DOMAIN nodes : is_root_row(nodes[n])}
            sorted == order_by_created_at_desc(nodes, selected, scan, MaxTime)
        IN  /\ arg.pc = "counted"
            /\ arg' = [arg EXCEPT !.pc = "paged",
                          !.nodes = page_window(sorted, arg.page, arg.page_size),
                          !.paged = DOMAIN nodes]
            /\ UNCHANGED <<nodes, nextId, now, op, ret>>

\* node_service.py:167: return nodes, total
ReturnRootNodes ==
    /\ arg.pc = "paged"
    /\ arg' = [arg EXCEPT !.pc = "returned"]
    /\ ret' = [NoRet EXCEPT !.status = "ok", !.http = 200,
                  !.nodes = arg.nodes, !.total = arg.total]
    /\ UNCHANGED <<nodes, nextId, now, op>>

\* NodeService.create_node run to its end by another request.
CreateDuringList ==
    \E is_root \in BOOLEAN, parent_id \in {NULL} \cup 1..MaxListNodes :
        LET new_id == nextId
            db_node == Row(new_id, create_is_root(is_root, parent_id),
                           parent_id, now', "b64")
        IN  /\ nextId <= MaxListNodes
            /\ now' \in now..MaxTime
            /\ nextId' = nextId + 1
            /\ nodes' = IF fk_satisfied(nodes, new_id, parent_id)
                        THEN insert(nodes, db_node) ELSE nodes
            /\ UNCHANGED <<op, arg, ret>>

NextPaging ==
    \/ CreateDuringList
    \/ CountQuery
    \/ PageQuery
    \/ ReturnRootNodes

SpecPaging == InitPaging /\ [][NextPaging]_vars

\* ------------------------------------------------------------------ C28
ListReturned == op = "get_root_nodes" /\ arg.pc = "returned"

\* The rows the listing matches among a set of stored ids.
RootRows(ids) == {n \in ids \cap StoredIds : nodes[n].is_root}

\* C28 as stated: for every list_roots call, also when creations run
\* between its count query and its page query, the number of nodes
\* returned is at most total, and total is at most the number of root
\* nodes stored when the call returns.
C28_ReturnedAtMostTotal ==
    ListReturned =>
        /\ Len(ret.nodes) <= ret.total
        /\ ret.total <= Cardinality(RootRows(StoredIds))

\* C28 amended: total is at most the number of root rows stored when the
\* call returns, and so is the number of nodes returned; the number
\* returned exceeds total by at most the number of root rows created
\* between the count query and the page query, and never exceeds total when
\* none was created in between.
C28_ReturnedAtMostTotalPlusNew ==
    ListReturned =>
        /\ ret.total <= Cardinality(RootRows(StoredIds))
        /\ ret.total = Cardinality(RootRows(arg.counted))
        /\ Len(ret.nodes) <= Cardinality(RootRows(StoredIds))
        /\ Len(ret.nodes) <= arg.page_size
        /\ Len(ret.nodes)
              <= ret.total + Cardinality(RootRows(arg.paged \ arg.counted))

\* A list call returned more nodes than its total: a root was created
\* between its two queries.
C28_Witness ==
    /\ ListReturned
    /\ Len(ret.nodes) > ret.total
    /\ RootRows(arg.paged \ arg.counted) # {}

\* ======================================================================
\* All pages of the root listing on a store that no longer changes: one
\* get_root_nodes call per page, pages 1 .. ceil(total / page_size).  arg
\* holds the position of the client: the page_size, the next page, and
\* the rows the pages returned so far, in order.
\* ======================================================================
SweepIdle == [pc |-> "idle", page_size |-> 0, page |-> 0, listed |-> <<>>]

InitSweep ==
    /\ nodes = <<>>
    /\ nextId = 1
    /\ now = 0
    /\ op = "init"
    /\ arg = SweepIdle
    /\ ret = NoRet

\* ceil(total / page_size)
PageCount(total, page_size) == (total + page_size - 1) \div page_size

\* The store is filled before the first page is asked for.
CreateBeforeSweep == arg.pc = "idle" /\ CreateDuringList

\* The client fixes a page_size.
BeginSweep ==
    \E page_size \in 1..MaxPageSize :
        /\ arg.pc = "idle"
        /\ arg' = [SweepIdle EXCEPT !.pc = "sweeping",
                                    !.page_size = page_size, !.page = 1]
        /\ UNCHANGED <<nodes, nextId, now, op, ret>>

\* NodeService.get_root_nodes(page, page_size) (node_service.py:139-167);
\* each call's page query is ordered by the database anew.
SweepPage ==
    \E scan \in ScanOrders(DOMAIN nodes) :
        LET selected == {n \in DOMAIN nodes : is_root_row(nodes[n])}
            sorted == order_by_created_at_desc(nodes, selected, scan, MaxTime)
            rows == page_window(sorted, arg.page, arg.page_size)
        IN  /\ arg.pc = "sweeping"
            /\ arg.page <= PageCount(count_roots(nodes), arg.page_size)
            /\ op' = "get_root_nodes"
            /\ arg' = [arg EXCEPT !.page = arg.page + 1,
                                  !.listed = arg.listed \o rows]
            /\ ret' = [NoRet EXCEPT !.status = "ok", !.http = 200,
                          !.nodes = rows, !.total = count_roots(nodes)]
            /\ UNCHANGED <<nodes, nextId, now>>

\* The last page has been read.
EndSweep ==
    /\ arg.pc = "sweeping"
    /\ arg.page > PageCount(count_roots(nodes), arg.page_size)
    /\ arg' = [arg EXCEPT !.pc = "done"]
    /\ UNCHANGED <<nodes, nextId, now, op, ret>>

NextSweep ==
    \/ CreateBeforeSweep
    \/ BeginSweep
    \/ SweepPage
    \/ EndSweep

SpecSweep == InitSweep /\ [][NextSweep]_vars

\* ------------------------------------------------------------------ C29
\* C29: for a fixed store and a fixed page_size, pages 1, 2, ...,
\* ceil(total / page_size) of list_roots together return every root node
\* exactly once: none is skipped, none is on two pages, also when several
\* roots share one created_at.
C29_PagesPartitionRoots ==
    arg.pc = "done" =>
        /\ Range(IdsOf(arg.listed)) = RootRows(StoredIds)
        /\ NoRepeats(IdsOf(arg.listed))

\* ======================================================================
\* The lineage and the tree of one node, read from the same store:
\* ImageService.get_image_lineage (image_service.py:62-112) and
\* NodeService.get_node_tree (node_service.py:53-99).
\* ======================================================================
LineageAndTree ==
    \E node_id \in 1..MaxLineageNodes, scan \in ScanOrders(DOMAIN nodes) :
        LET node == select_by_id(nodes, node_id)
            cte == descendants_cte(nodes, node_id, scan)
        IN  /\ op' = "lineage_and_tree"
            /\ arg' = [NoArg EXCEPT !.node_id = node_id]
            /\ ret' = [lineage |-> get_image_lineage(nodes, node_id, scan),
                       tree |-> IF node = <<>>
                                THEN [NoRet EXCEPT !.status = "none"]
                                ELSE IF ~cte.done
                                THEN [NoRet EXCEPT !.status = "diverges"]
                                ELSE [NoRet EXCEPT !.status = "ok",
                                         !.tree = <<root_of(cte.rows, node_id)>>]]
            /\ UNCHANGED <<nodes, nextId, now>>

NextBoth == CreateLineageNode \/ LineageAndTree

SpecBoth == Init /\ [][NextBoth]_vars

\* ------------------------------------------------------------------ C30
\* Both reads have returned for a stored node.
BothReturned ==
    /\ op = "lineage_and_tree" /\ arg.node_id \in StoredIds
    /\ ret.lineage.status = "ok" /\ ret.tree.status = "ok"

LineageSet == Range(IdsOf(ret.lineage.descendants))

TreeNonRootSet == Range(tree_ids(ret.tree.tree[1])) \ {arg.node_id}

\* C30: for every stored node X the nodes of get_lineage(X).descendants
\* are among the non-root nodes of get_tree(X), and the two sets are equal
\* exactly when no descendant of X lies more than two levels below X.
C30_LineageWithinTree ==
    (op = "lineage_and_tree" /\ arg.node_id \in StoredIds) =>
        /\ BothReturned
        /\ LineageSet \subseteq TreeNonRootSet
        /\ LineageSet = TreeNonRootSet
              <=> DescendantsOf(arg.node_id) \subseteq TwoLevels(arg.node_id)

====
